---- MODULE Spec2Model ----
(***************************************************************************)
(* Model of LLMClient (src/llm_client.py): the text-generation primitive   *)
(* generate_text, the convergence test _check_convergence, and the two     *)
(* orchestrators generate_with_reflection and generate_with_deepening.     *)
(*                                                                         *)
(* A text is a sequence of one-character strings.  One behaviour is one    *)
(* call of one orchestrator: Init draws the method and its arguments, and  *)
(* every later step is the code between two completion-API calls, the      *)
(* reply of the API (a raw content or an exception) being the input of     *)
(* the step.                                                               *)
(***************************************************************************)
EXTENDS Integers, Sequences, FiniteSets, TLC

\* Largest max_iterations argument that is explored.
MaxRounds == 2

VARIABLES
    pc,              \* position of the call: "entry", a step name, "returned", "raised"
    method,          \* the orchestrator that was called
    prompt,          \* argument prompt
    strategy_name,   \* argument strategy_name
    max_iterations,  \* argument max_iterations (generate_with_reflection)
    history,         \* local list history
    current_answer,  \* local current_answer
    critique,        \* local critique
    overview,        \* local overview (generate_with_deepening)
    detailed_analysis, \* local detailed_analysis (generate_with_deepening)
    i,               \* loop variable of "for i in range(max_iterations)"
    calls,           \* completion-API calls made so far, in order
    checks,          \* _check_convergence calls made so far, in order
    result,          \* <<>> until the method returns, then <<the returned dict>>
    app,             \* the page of app.py: widget values, position in main, outputs
    threads          \* the other call on the shared client when two calls interleave

vars == <<pc, method, prompt, strategy_name, max_iterations, history,
          current_answer, critique, overview, detailed_analysis, i, calls,
          checks, result, app, threads>>

----------------------------------------------------------------------------
(* The strategy catalogue (prompt_templates.THINKING_STRATEGIES): only the  *)
(* 'type' of each entry decides control flow.                               *)
THINKING_STRATEGIES ==
    [ self_reflection |-> [type |-> "iterative"],
      adversarial     |-> [type |-> "iterative"],
      deepening       |-> [type |-> "pipeline"] ]

\* Strategy names a caller may pass: the catalogue's keys and one absent key.
StrategyNames == DOMAIN THINKING_STRATEGIES \cup {"no_such_strategy"}

\* User prompts a caller may pass.
Prompts == { <<"q">>, <<"q", "2">> }

----------------------------------------------------------------------------
(* generate_text *)

\* Replies of the completion API: a raw message content, or an exception.
RawContents == { <<" ">>, <<"a">>, <<" ", "b">>, <<"c", " ">> }
Errors      == { <<"e">> }
ApiOutcomes == [raised : {FALSE}, payload : RawContents]
                 \cup [raised : {TRUE}, payload : Errors]

RECURSIVE lstrip(_)
lstrip(s) == IF s # <<>> /\ Head(s) = " " THEN lstrip(Tail(s)) ELSE s

RECURSIVE rstrip(_)
rstrip(s) == IF s # <<>> /\ s[Len(s)] = " "
             THEN rstrip(SubSeq(s, 1, Len(s) - 1)) ELSE s

\* str.strip()
strip(s) == rstrip(lstrip(s))

\* The text of the "except" branch: a fixed prefix followed by str(e).
FailureText(e) == <<"K", "!">> \o e

\* Variant: the except branch returns an empty string.
generate_text_EmptyOnError(o) ==
    IF o.raised THEN <<>> ELSE strip(o.payload)

\* generate_text(prompt, max_tokens) when the API replies with outcome o.
generate_text(o) ==
    IF o.raised THEN FailureText(o.payload) ELSE strip(o.payload)

\* The record kept of one completion-API call.
Call(step, p, max_tokens, o) ==
    [step |-> step, prompt |-> p, max_tokens |-> max_tokens,
     raised |-> o.raised, text |-> generate_text(o)]

\* str.format on a template of the strategy: the template and its slot values.
Format(template, slots) ==
    [strategy |-> strategy_name, template |-> template, slots |-> slots]

----------------------------------------------------------------------------
(* _check_convergence *)

\* similarity_model.encode: a fixed sentence -> vector table.  The vectors are
\* normalised (all have the same squared length, 150), as the embeddings of
\* the sentence-transformer model are; equal texts get equal vectors.
encode(t) ==
    CASE t = <<"a">>  -> <<-1, 10, 7>>
      [] t = <<"b">>  -> <<1, 10, 7>>
      [] t = <<"c">>  -> <<-2, 11, 5>>
      [] t = <<>>     -> <<10, -1, -7>>
      [] OTHER        -> <<7, -10, 1>>

Dot(u, v) == u[1] * v[1] + u[2] * v[2] + u[3] * v[3]

\* util.pytorch_cos_sim of two vectors of equal length, as the fraction
\* <<numerator, denominator>> with a positive denominator.
pytorch_cos_sim(u, v) == <<Dot(u, v), Dot(u, u)>>

\* The default of the parameter threshold: 0.98 as a fraction.
threshold == <<98, 100>>

\* x > y and x >= y on fractions with positive denominators.
Greater(x, y)   == x[1] * y[2] > y[1] * x[2]
AtLeast(x, y)   == x[1] * y[2] >= y[1] * x[2]

\* The similarity _check_convergence measures between two answers.
Similarity(answer1, answer2) == pytorch_cos_sim(encode(answer1), encode(answer2))

\* Variant: the test never succeeds.
check_convergence_never(answer1, answer2) == FALSE

\* _check_convergence(answer1, answer2) with the default threshold.
check_convergence(answer1, answer2) ==
    Greater(Similarity(answer1, answer2), threshold)

\* The record kept of one _check_convergence call.
Check(answer1, answer2) ==
    [answer1 |-> answer1, answer2 |-> answer2,
     converged |-> check_convergence(answer1, answer2)]

----------------------------------------------------------------------------
(* History entries: {"type": ..., "content": ...} *)

Entry(type, content) == [type |-> type, content |-> content]

\* The fixed contents the orchestrators write instead of a generated text.
NoteConverged == <<"answer is stable, final version generated">>
NoteRefined   == <<"new version generated from the critique">>
NoteMax(n)    == <<"maximum number of iterations reached", ToString(n)>>
NoteFinal     == <<"all analyses merged, final version generated">>

InitialEntry(answer)   == Entry(<<"initial answer">>, answer)
CritiqueEntry(k, text) == Entry(<<"critique", ToString(k)>>, text)
ConvergedEntry(k)      == Entry(<<"refined answer", ToString(k), "converged">>, NoteConverged)
RefinedEntry(k)        == Entry(<<"refined answer", ToString(k)>>, NoteRefined)
MaxEntry(n)            == Entry(<<"thinking complete">>, NoteMax(n))
OverviewEntry(text)    == Entry(<<"step 1: overview">>, text)
AnalysisEntry(text)    == Entry(<<"step 2: analysis">>, text)
FinalEntry             == Entry(<<"step 3: final answer">>, NoteFinal)

\* The returned dict.
Return(final_answer, h) == [final_answer |-> final_answer, history |-> h]

----------------------------------------------------------------------------
(* generate_with_reflection *)

\* Variant: only the presence of the key is tested.
IsIterativeStrategy_KeyOnly(name) == name \in DOMAIN THINKING_STRATEGIES

\* The negation of the guard of the first "if": a known key of type iterative.
IsIterativeStrategy(name) ==
    /\ name \in DOMAIN THINKING_STRATEGIES
    /\ THINKING_STRATEGIES[name].type = "iterative"

\* Variant: the body of the loop runs at least once.
RangeHasNext_DoWhile(k, n) == k + 1 < n \/ k = -1

\* Variant: one round too many.
RangeHasNext_OffByOne(k, n) == k + 1 <= n

\* "for i in range(n)": after the round with loop variable k, is there a next one?
\* (k = -1 before the first round.)
RangeHasNext(k, n) == k + 1 < n

\* Variant: the refined answer is dropped.
AnswerAfterRound_Stale(current, refined) == current

\* current_answer after a round: "current_answer = refined_answer".
AnswerAfterRound(current, refined) == refined

\* Variant: the marker of the round overwrites the round's critique entry.
HistoryAfterRound_Overwrite(h, k, n, conv) ==
    LET kept == SubSeq(h, 1, Len(h) - 1)
    IN IF conv THEN Append(kept, ConvergedEntry(k + 1))
       ELSE IF RangeHasNext(k, n) THEN Append(kept, RefinedEntry(k + 1))
       ELSE kept \o <<RefinedEntry(k + 1), MaxEntry(n)>>

\* Variant: the round that converged is not recorded.
HistoryAfterRound_DropConverged(h, k, n, conv) ==
    IF conv THEN h
    ELSE IF RangeHasNext(k, n) THEN Append(h, RefinedEntry(k + 1))
    ELSE h \o <<RefinedEntry(k + 1), MaxEntry(n)>>

\* history after the refinement of the round with loop variable k: the entry of
\* the "if" (break) or the entry after it, and the entry of the for-else when
\* the loop ends without break.
HistoryAfterRound(h, k, n, conv) ==
    IF conv THEN Append(h, ConvergedEntry(k + 1))
    ELSE IF RangeHasNext(k, n) THEN Append(h, RefinedEntry(k + 1))
    ELSE h \o <<RefinedEntry(k + 1), MaxEntry(n)>>

\* The guard, and "strategy = ...; history = []".
ReflectionEntry ==
    /\ pc = "entry"
    /\ method = "generate_with_reflection"
    /\ IF IsIterativeStrategy(strategy_name)
       THEN pc' = "initial"
       ELSE pc' = "raised"
    /\ UNCHANGED <<app, threads, method, prompt, strategy_name, max_iterations, history,
                   current_answer, critique, overview, detailed_analysis, i,
                   calls, checks, result>>

\* The initial answer, and the entry into the loop (or, when range is empty,
\* the for-else and the return).
ReflectionInitial ==
    /\ pc = "initial"
    /\ \E o \in ApiOutcomes :
         LET initial_answer == generate_text(o)
             h == <<InitialEntry(initial_answer)>>
         IN /\ calls' = Append(calls, Call("initial", prompt, 2048, o))
            /\ current_answer' = initial_answer
            /\ IF RangeHasNext(-1, max_iterations)
               THEN /\ history' = h
                    /\ i' = 0
                    /\ pc' = "critique"
                    /\ result' = result
               ELSE /\ history' = Append(h, MaxEntry(max_iterations))
                    /\ i' = i
                    /\ pc' = "returned"
                    /\ result' = <<Return(initial_answer, history')>>
    /\ UNCHANGED <<app, threads, method, prompt, strategy_name, max_iterations, critique,
                   overview, detailed_analysis, checks>>

\* The critique of the round.
ReflectionCritique ==
    /\ pc = "critique"
    /\ \E o \in ApiOutcomes :
         LET critique_prompt ==
                 Format("critique", [prompt |-> prompt, current_answer |-> current_answer])
         IN /\ calls' = Append(calls, Call("critique", critique_prompt, 512, o))
            /\ critique' = generate_text(o)
            /\ history' = Append(history, CritiqueEntry(i + 1, critique'))
    /\ pc' = "refinement"
    /\ UNCHANGED <<app, threads, method, prompt, strategy_name, max_iterations, current_answer,
                   overview, detailed_analysis, i, checks, result>>

\* The refinement of the round, the convergence check, and what follows it up
\* to the next generation call or the return.
ReflectionRefinement ==
    /\ pc = "refinement"
    /\ \E o \in ApiOutcomes :
         LET refinement_prompt ==
                 Format("refinement", [prompt |-> prompt, current_answer |-> current_answer,
                                       critique |-> critique])
             refined_answer == generate_text(o)
             conv == check_convergence(current_answer, refined_answer)
         IN /\ calls' = Append(calls, Call("refinement", refinement_prompt, 2048, o))
            /\ checks' = Append(checks, Check(current_answer, refined_answer))
            /\ history' = HistoryAfterRound(history, i, max_iterations, conv)
            /\ current_answer' = AnswerAfterRound(current_answer, refined_answer)
            /\ IF ~conv /\ RangeHasNext(i, max_iterations)
               THEN /\ i' = i + 1
                    /\ pc' = "critique"
                    /\ result' = result
               ELSE /\ i' = i
                    /\ pc' = "returned"
                    /\ result' = <<Return(current_answer', history')>>
    /\ UNCHANGED <<app, threads, method, prompt, strategy_name, max_iterations, critique,
                   overview, detailed_analysis>>

----------------------------------------------------------------------------
(* generate_with_deepening *)

\* The negation of the guard of the first "if": a known key of type pipeline.
IsPipelineStrategy(name) ==
    /\ name \in DOMAIN THINKING_STRATEGIES
    /\ THINKING_STRATEGIES[name].type = "pipeline"

\* The guard, and "strategy = ...; history = []".
DeepeningEntry ==
    /\ pc = "entry"
    /\ method = "generate_with_deepening"
    /\ IF IsPipelineStrategy(strategy_name)
       THEN pc' = "step1"
       ELSE pc' = "raised"
    /\ UNCHANGED <<app, threads, method, prompt, strategy_name, max_iterations, history,
                   current_answer, critique, overview, detailed_analysis, i,
                   calls, checks, result>>

\* Variant: after the overview the code goes straight to the last step.
DeepeningStep1_SkipAnalysis ==
    /\ pc = "step1"
    /\ \E o \in ApiOutcomes :
         LET prompt_step1 == Format("step1_overview", [prompt |-> prompt])
         IN /\ calls' = Append(calls, Call("step1_overview", prompt_step1, 512, o))
            /\ overview' = generate_text(o)
            /\ history' = Append(history, OverviewEntry(overview'))
    /\ pc' = "step3"
    /\ UNCHANGED <<app, threads, method, prompt, strategy_name, max_iterations, current_answer,
                   critique, detailed_analysis, i, checks, result>>

\* Step 1: overview.
DeepeningStep1 ==
    /\ pc = "step1"
    /\ \E o \in ApiOutcomes :
         LET prompt_step1 == Format("step1_overview", [prompt |-> prompt])
         IN /\ calls' = Append(calls, Call("step1_overview", prompt_step1, 512, o))
            /\ overview' = generate_text(o)
            /\ history' = Append(history, OverviewEntry(overview'))
    /\ pc' = "step2"
    /\ UNCHANGED <<app, threads, method, prompt, strategy_name, max_iterations, current_answer,
                   critique, detailed_analysis, i, checks, result>>

\* Step 2: detailed analysis.
DeepeningStep2 ==
    /\ pc = "step2"
    /\ \E o \in ApiOutcomes :
         LET prompt_step2 ==
                 Format("step2_analysis", [prompt |-> prompt, overview |-> overview])
         IN /\ calls' = Append(calls, Call("step2_analysis", prompt_step2, 1500, o))
            /\ detailed_analysis' = generate_text(o)
            /\ history' = Append(history, AnalysisEntry(detailed_analysis'))
    /\ pc' = "step3"
    /\ UNCHANGED <<app, threads, method, prompt, strategy_name, max_iterations, current_answer,
                   critique, overview, i, checks, result>>

\* Variant: the analysis is returned as the final answer.
DeepeningResult_Analysis(final_answer, analysis, h) ==
    Return(analysis, Append(h, FinalEntry))

\* The last append and the returned dict of generate_with_deepening.
DeepeningResult(final_answer, analysis, h) ==
    Return(final_answer, Append(h, FinalEntry))

\* Step 3: the final answer, and the return.
DeepeningStep3 ==
    /\ pc = "step3"
    /\ \E o \in ApiOutcomes :
         LET prompt_step3 ==
                 Format("step3_refine", [prompt |-> prompt,
                                         detailed_analysis |-> detailed_analysis])
             final_answer == generate_text(o)
             r == DeepeningResult(final_answer, detailed_analysis, history)
         IN /\ calls' = Append(calls, Call("step3_refine", prompt_step3, 2048, o))
            /\ history' = r.history
            /\ result' = <<r>>
    /\ pc' = "returned"
    /\ UNCHANGED <<app, threads, method, prompt, strategy_name, max_iterations, current_answer,
                   critique, overview, detailed_analysis, i, checks>>

----------------------------------------------------------------------------
(* One call of one orchestrator with arguments drawn from the input sets. *)

\* The client is called directly: there is no page, and no second call.
NoApp     == [pc |-> "none"]
NoThreads == [running |-> 0]

Methods == {"generate_with_reflection", "generate_with_deepening"}

Init ==
    /\ pc = "entry"
    /\ method \in Methods
    /\ prompt \in Prompts
    /\ strategy_name \in StrategyNames
    /\ max_iterations \in (IF method = "generate_with_reflection"
                           THEN -1 .. MaxRounds ELSE {0})
    /\ history = <<>>
    /\ current_answer = <<>>
    /\ critique = <<>>
    /\ overview = <<>>
    /\ detailed_analysis = <<>>
    /\ i = 0
    /\ calls = <<>>
    /\ checks = <<>>
    /\ result = <<>>
    /\ app = NoApp
    /\ threads = NoThreads

Next ==
    \/ ReflectionEntry
    \/ ReflectionInitial
    \/ ReflectionCritique
    \/ ReflectionRefinement
    \/ DeepeningEntry
    \/ DeepeningStep1
    \/ DeepeningStep2
    \/ DeepeningStep3

Spec == Init /\ [][Next]_vars

\* The method runs on one thread and every completion call returns or raises:
\* a step that is enabled is eventually taken.
FairSpec == Spec /\ WF_vars(Next)

----------------------------------------------------------------------------
(* app.py: main.  The page holds the widget values; pressing the start      *)
(* button runs the single-pass generation and then the orchestrator chosen  *)
(* by the type of the selected strategy, on the client modelled above.      *)

\* Values of the text area.
AppPrompts == { <<>>, <<"q">> }

\* Values of the slider (min_value=1, max_value=5), as far as they are explored.
SliderValues == {n \in 1 .. 5 : n <= MaxRounds}

\* The fallback of result.get("final_answer", ...).
NoAnswer == <<"sorry, no final answer was generated">>

\* Variant: the button starts the run whatever the text area holds.
PromptGiven_Always(p) == TRUE

\* "if not prompt" is false: the text area holds a non-empty string.
PromptGiven(p) == p # <<>>

\* Variant: every strategy is sent to generate_with_reflection.
DispatchMethod_AlwaysReflection(type) == "generate_with_reflection"

\* The method the if / elif on the strategy's type calls ("none": neither).
DispatchMethod(type) ==
    IF type = "iterative" THEN "generate_with_reflection"
    ELSE IF type = "pipeline" THEN "generate_with_deepening"
    ELSE "none"

\* The page before the button is pressed, and no call on the client yet.
AppInit ==
    /\ app \in { a \in [ pc : {"button"},
                        prompt : AppPrompts,
                        selected_strategy_key : DOMAIN THINKING_STRATEGIES,
                        max_iterations : {0} \cup SliderValues,
                        single_calls : {<<>>},
                        single_response : {<<>>},
                        written : {<<>>},
                        status : {<<>>},
                        reflective_output : {<<>>} ] :
                   IF THINKING_STRATEGIES[a.selected_strategy_key].type = "iterative"
                   THEN a.max_iterations \in SliderValues
                   ELSE a.max_iterations = 0 }
    /\ pc = "none"
    /\ method = "none"
    /\ prompt = <<>>
    /\ strategy_name = "none"
    /\ max_iterations = 0
    /\ history = <<>>
    /\ current_answer = <<>>
    /\ critique = <<>>
    /\ overview = <<>>
    /\ detailed_analysis = <<>>
    /\ i = 0
    /\ calls = <<>>
    /\ checks = <<>>
    /\ result = <<>>
    /\ threads = NoThreads

\* The button is pressed: the warning, or the single-pass generation followed
\* by the call of the orchestrator the strategy's type selects.
AppStart ==
    /\ app.pc = "button"
    /\ IF ~PromptGiven(app.prompt)
       THEN /\ app' = [app EXCEPT !.pc = "warned"]
            /\ UNCHANGED <<pc, method, prompt, strategy_name, max_iterations>>
       ELSE \E o \in ApiOutcomes :
              LET selected_strategy_info == THINKING_STRATEGIES[app.selected_strategy_key]
                  m == DispatchMethod(selected_strategy_info.type)
              IN /\ app' = [app EXCEPT
                              !.pc = "running",
                              !.single_calls = <<Call("single", app.prompt, 2048, o)>>,
                              !.single_response = <<generate_text(o)>>]
                 /\ method' = m
                 /\ IF m = "none"
                    THEN UNCHANGED <<pc, prompt, strategy_name, max_iterations>>
                    ELSE /\ pc' = "entry"
                         /\ prompt' = app.prompt
                         /\ strategy_name' = app.selected_strategy_key
                         /\ max_iterations' = IF m = "generate_with_reflection"
                                              THEN app.max_iterations
                                              ELSE max_iterations
    /\ UNCHANGED <<threads, history, current_answer, critique, overview,
                   detailed_analysis, i, calls, checks, result>>

\* The orchestrator is back: the history is written into the status box, the
\* status is updated to complete and the final answer is rendered; an error
\* raised by the orchestrator leaves main before any of that.
AppFinish ==
    /\ app.pc = "running"
    /\ pc \in {"returned", "raised"} \/ method = "none"
    /\ IF pc = "raised"
       THEN app' = [app EXCEPT !.pc = "error"]
       ELSE LET r == IF result = <<>>
                     THEN [history |-> <<>>, final_answer |-> NoAnswer]
                     ELSE result[1]
            IN app' = [app EXCEPT
                         !.pc = "done",
                         !.written = r.history,
                         !.status = Append(@, "complete"),
                         !.reflective_output = <<r.final_answer>>]
    /\ UNCHANGED <<threads, pc, method, prompt, strategy_name, max_iterations,
                   history, current_answer, critique, overview, detailed_analysis,
                   i, calls, checks, result>>

AppNext ==
    \/ AppStart
    \/ AppFinish
    \/ Next

AppSpec == AppInit /\ [][AppNext]_vars

----------------------------------------------------------------------------
(* Two calls on the one cached client (app.py: init_llm_client), each on    *)
(* its own thread.  The variables above are the frame of the call whose     *)
(* thread is running; threads.parked is the frame of the other call.  The   *)
(* methods assign no attribute of self, so the client itself has no state   *)
(* that a step changes.                                                     *)

\* The arguments and locals of a call, with the log of its own calls.
Frame ==
    [pc |-> pc, method |-> method, prompt |-> prompt,
     strategy_name |-> strategy_name, max_iterations |-> max_iterations,
     history |-> history, current_answer |-> current_answer,
     critique |-> critique, overview |-> overview,
     detailed_analysis |-> detailed_analysis, i |-> i, calls |-> calls,
     checks |-> checks, result |-> result]

\* The frame of a call that has not started: one round for the iterative
\* method, and the strategy that fits the method.
NewFrame(m, p) ==
    [pc |-> "entry", method |-> m, prompt |-> p,
     strategy_name |-> IF m = "generate_with_reflection"
                       THEN "self_reflection" ELSE "deepening",
     max_iterations |-> IF m = "generate_with_reflection" THEN 1 ELSE 0,
     history |-> <<>>, current_answer |-> <<>>, critique |-> <<>>,
     overview |-> <<>>, detailed_analysis |-> <<>>, i |-> 0, calls |-> <<>>,
     checks |-> <<>>, result |-> <<>>]

\* Variant: history is kept on the shared client, so a resumed call goes on
\* with the list as the other call left it.
FrameHistory_OnClient(own, other) == other

\* "history = []" makes the list a local of the call: a resumed call goes on
\* with its own list, whatever the other call did to its own meanwhile.
FrameHistory(own, other) == own

ConcInit ==
    \E m1 \in Methods, m2 \in Methods :
        LET f == NewFrame(m1, <<"q">>)
        IN /\ threads = [running |-> 1, parked |-> NewFrame(m2, <<"q", "2">>)]
           /\ pc = f.pc
           /\ method = f.method
           /\ prompt = f.prompt
           /\ strategy_name = f.strategy_name
           /\ max_iterations = f.max_iterations
           /\ history = f.history
           /\ current_answer = f.current_answer
           /\ critique = f.critique
           /\ overview = f.overview
           /\ detailed_analysis = f.detailed_analysis
           /\ i = f.i
           /\ calls = f.calls
           /\ checks = f.checks
           /\ result = f.result
           /\ app = NoApp

\* The other thread is scheduled: the running call's frame is parked and the
\* parked frame becomes the running one.
Switch ==
    /\ threads.running # 0
    /\ threads' = [running |-> 3 - threads.running, parked |-> Frame]
    /\ pc' = threads.parked.pc
    /\ method' = threads.parked.method
    /\ prompt' = threads.parked.prompt
    /\ strategy_name' = threads.parked.strategy_name
    /\ max_iterations' = threads.parked.max_iterations
    /\ history' = FrameHistory(threads.parked.history, history)
    /\ current_answer' = threads.parked.current_answer
    /\ critique' = threads.parked.critique
    /\ overview' = threads.parked.overview
    /\ detailed_analysis' = threads.parked.detailed_analysis
    /\ i' = threads.parked.i
    /\ calls' = threads.parked.calls
    /\ checks' = threads.parked.checks
    /\ result' = threads.parked.result
    /\ UNCHANGED app

ConcNext ==
    \/ Switch
    \/ Next

ConcSpec == ConcInit /\ [][ConcNext]_vars

----------------------------------------------------------------------------
(* What the properties below read off a run. *)

IsReflection == method = "generate_with_reflection"
IsDeepening  == method = "generate_with_deepening"
Returned     == pc = "returned"
Terminated   == pc \in {"returned", "raised"}

\* The type of a strategy name in the catalogue, "none" for an absent key.
KindOf(name) ==
    IF name \in DOMAIN THINKING_STRATEGIES THEN THINKING_STRATEGIES[name].type
    ELSE "none"

\* The calls of one step, in order.
CallsOf(step) == SelectSeq(calls, LAMBDA c : c.step = step)

\* Rounds in which the refinement call was made.
Rounds == Len(CallsOf("refinement"))

SomeCallRaised == \E j \in 1 .. Len(calls) : calls[j].raised

Last(q) == q[Len(q)]

\* The two ways the loop of generate_with_reflection ends, as the returned
\* history shows them: the entry of the break, or the entry of the for-else.
Converged ==
    /\ Returned /\ IsReflection
    /\ \E k \in 1 .. Len(checks) : ConvergedEntry(k) = Last(result[1].history)
MaxRoundsReached ==
    /\ Returned /\ IsReflection
    /\ Last(result[1].history) = MaxEntry(max_iterations)
\* The returned dict has the keys final_answer and history only: no returned
\* value of the code is a Failed result.
Failed == FALSE

----------------------------------------------------------------------------
(* C1: Failure short-circuit.  In every run of generate_with_reflection, if  *)
(* the j-th generation call fails, no (j+1)-th generation call is made: a    *)
(* failed call is the last call of the run.                                  *)
C1_FailureShortCircuit ==
    IsReflection =>
        \A j \in 1 .. Len(calls) : calls[j].raised => j = Len(calls)

(* C2: A generation failure is never swallowed.  When a generation call of   *)
(* an iterative run failed and the run is over, its outcome is Failed, the   *)
(* history holds only the entries made before the failing call, and the      *)
(* failure text is not the final answer of a returned (successful) result.   *)
C2_FailureNotSwallowed ==
    (IsReflection /\ Returned /\ SomeCallRaised) =>
        /\ Failed
        /\ \A e \in Errors : result[1].final_answer # FailureText(e)
        /\ \A j \in 1 .. Len(calls) :
               calls[j].raised =>
                   \A n \in 1 .. Len(history) : history[n].content # calls[j].text

(* C3 as stated: whenever the similarity of a round's convergence check is   *)
(* greater than OR EQUAL TO the threshold, that round is the last one and    *)
(* the returned final answer is that round's refined answer.                 *)
C3_ConvergenceAtThreshold ==
    IsReflection =>
        \A k \in 1 .. Len(checks) :
            AtLeast(Similarity(checks[k].answer1, checks[k].answer2), threshold) =>
                /\ Returned
                /\ Rounds = k
                /\ Len(CallsOf("critique")) = k
                /\ result[1].final_answer = CallsOf("refinement")[k].text

(* C3 amended: whenever the similarity of a round's convergence check is     *)
(* strictly greater than the threshold, that round is the last one (no       *)
(* further critique or refinement call) and the returned final answer is     *)
(* that round's refined answer.                                              *)
C3_ConvergenceAboveThreshold ==
    IsReflection =>
        \A k \in 1 .. Len(checks) :
            Greater(Similarity(checks[k].answer1, checks[k].answer2), threshold) =>
                /\ Returned
                /\ Rounds = k
                /\ Len(CallsOf("critique")) = k
                /\ result[1].final_answer = CallsOf("refinement")[k].text

\* A run that stopped in round 1 of 2 on a refined answer that differs from
\* the initial answer and is more than 0.98 similar to it.
C3_Witness ==
    /\ IsReflection /\ Returned
    /\ max_iterations = 2 /\ Rounds = 1
    /\ checks[1].answer1 # checks[1].answer2
    /\ Greater(Similarity(checks[1].answer1, checks[1].answer2), threshold)
    /\ result[1].final_answer = checks[1].answer2

(* C4: Termination bound.  In a run of generate_with_reflection with         *)
(* max_iterations = N >= 1, at most N rounds are executed (at most N         *)
(* critique and N refinement calls), the run terminates, and a returned run  *)
(* ended in exactly one of Converged, MaxRoundsReached, Failed.              *)
C4_RoundsAndOutcome ==
    (IsReflection /\ max_iterations >= 1) =>
        /\ Rounds <= max_iterations
        /\ Len(CallsOf("critique")) <= max_iterations
        /\ Returned =>
               Cardinality({x \in {"Converged", "MaxRoundsReached", "Failed"} :
                              \/ x = "Converged" /\ Converged
                              \/ x = "MaxRoundsReached" /\ MaxRoundsReached
                              \/ x = "Failed" /\ Failed}) = 1
C4_TerminationBound == []C4_RoundsAndOutcome /\ <>Terminated

\* A run that used its whole budget of 2 rounds and returned.
C4_Witness ==
    /\ IsReflection /\ Returned
    /\ max_iterations = 2 /\ Rounds = 2

(* C5 as stated: a successful run of generate_with_deepening (no generation  *)
(* call failed) returns a history of exactly 3 entries in stage order, entry *)
(* n holding the output text of stage n, and the final answer is the output  *)
(* of stage 3.                                                               *)
C5_PipelineHistoryHoldsOutputs ==
    (IsDeepening /\ Returned /\ ~SomeCallRaised) =>
        /\ Len(result[1].history) = 3
        /\ Len(calls) = 3
        /\ \A n \in 1 .. 3 : result[1].history[n].content = calls[n].text
        /\ result[1].final_answer = calls[3].text

(* C5 amended: a successful run of generate_with_deepening returns a history *)
(* of exactly 3 entries in stage order (overview, analysis, final answer);   *)
(* entries 1 and 2 hold the output texts of stages 1 and 2, entry 3 holds a  *)
(* fixed note instead of the output of stage 3; the final answer is the      *)
(* output of stage 3.                                                        *)
C5_PipelineCompleteness ==
    (IsDeepening /\ Returned /\ ~SomeCallRaised) =>
        /\ Len(calls) = 3
        /\ <<calls[1].step, calls[2].step, calls[3].step>>
               = <<"step1_overview", "step2_analysis", "step3_refine">>
        /\ result[1].history = <<OverviewEntry(calls[1].text),
                                 AnalysisEntry(calls[2].text),
                                 Entry(<<"step 3: final answer">>, NoteFinal)>>
        /\ result[1].final_answer = calls[3].text

\* A successful pipeline run whose three stages produced three different texts.
C5_Witness ==
    /\ IsDeepening /\ Returned /\ ~SomeCallRaised
    /\ calls[1].text = <<"a">> /\ calls[2].text = <<"b">> /\ calls[3].text = <<"c">>
    /\ result[1].final_answer = <<"c">>

(* C6: Pipeline failure abort.  In generate_with_deepening, if the           *)
(* generation call of stage n fails, no later stage is executed and the      *)
(* history holds exactly the outputs of stages 1 .. n-1.                     *)
C6_PipelineFailureAbort ==
    IsDeepening =>
        \A n \in 1 .. Len(calls) :
            calls[n].raised =>
                /\ Len(calls) = n
                /\ Len(history) = n - 1
                /\ \A m \in 1 .. n - 1 : history[m].content = calls[m].text

(* C7: Strategy validation precedes all work.  generate_with_reflection      *)
(* called with an unknown or pipeline-typed strategy, and                    *)
(* generate_with_deepening called with an unknown or iterative-typed         *)
(* strategy, raise before any generation call: no call, no history entry and *)
(* no result are ever produced, and the call ends in the raised error.       *)
C7_ValidationFirst ==
    ( \/ IsReflection /\ KindOf(strategy_name) # "iterative"
      \/ IsDeepening /\ KindOf(strategy_name) # "pipeline" ) =>
        /\ pc \in {"entry", "raised"}
        /\ calls = <<>>
        /\ checks = <<>>
        /\ history = <<>>
        /\ result = <<>>

\* generate_with_reflection was called with the pipeline strategy and raised.
C7_Witness ==
    /\ IsReflection /\ strategy_name = "deepening"
    /\ pc = "raised" /\ calls = <<>>

(* C8: Degenerate similarity.  Whenever one of the two answers of a          *)
(* convergence check is the empty text, the convergence test fails (the      *)
(* similarity counts as 0.0) and the loop does not stop in that round.       *)
C8_EmptyTextNeverConverges ==
    IsReflection =>
        \A k \in 1 .. Len(checks) :
            (checks[k].answer1 = <<>> \/ checks[k].answer2 = <<>>) =>
                /\ ~checks[k].converged
                /\ ~(Converged /\ Rounds = k)

\* The refined answer texts of the rounds, in order.
RefinedTexts == [r \in 1 .. Rounds |-> CallsOf("refinement")[r].text]

(* C9 as stated: the returned history of an iterative run of R rounds is the *)
(* initial answer followed by exactly R steps, step r recording the critique *)
(* text and the refined answer text of round r.                              *)
C9_HistoryRecordsRefinedAnswers ==
    (IsReflection /\ Returned) =>
        LET h == result[1].history
        IN /\ h[1].content = calls[1].text
           /\ \A r \in 1 .. Rounds :
                  /\ \E n \in 2 .. Len(h) : h[n].content = CallsOf("critique")[r].text
                  /\ \E n \in 2 .. Len(h) : h[n].content = RefinedTexts[r]

\* The two entries round r leaves in the history.
RECURSIVE RoundEntries(_)
RoundEntries(r) ==
    IF r = 0 THEN <<>>
    ELSE RoundEntries(r - 1)
           \o <<CritiqueEntry(r, CallsOf("critique")[r].text),
                IF checks[r].converged THEN ConvergedEntry(r) ELSE RefinedEntry(r)>>

(* C9 amended: the returned history of an iterative run of R rounds is the   *)
(* initial answer followed, for each round 1..R in order, by two entries:    *)
(* the critique text of the round, and a marker of the round's refined       *)
(* answer that holds a fixed note, not the refined text (the marker of the   *)
(* round that triggered convergence is included, flagged as converged);      *)
(* when the loop ended without convergence one closing 'maximum iterations   *)
(* reached' entry follows.  Convergence at round 2 gives 1 + 4 entries.      *)
C9_HistoryContent ==
    (IsReflection /\ Returned) =>
        /\ Len(checks) = Rounds
        /\ Len(CallsOf("critique")) = Rounds
        /\ result[1].history =
               <<InitialEntry(calls[1].text)>> \o RoundEntries(Rounds)
                 \o (IF Rounds > 0 /\ checks[Rounds].converged
                     THEN <<>> ELSE <<MaxEntry(max_iterations)>>)

\* A run that converged in round 2.
C9_Witness ==
    /\ IsReflection /\ Returned
    /\ Rounds = 2 /\ checks[2].converged
    /\ Len(result[1].history) = 5

(* C10: MaxRoundsReached.  If generate_with_reflection completes all         *)
(* max_iterations >= 1 rounds and no convergence test succeeded, the run     *)
(* ends as MaxRoundsReached and the final answer is the refined answer of    *)
(* the last round.                                                           *)
C10_MaxRoundsFinalAnswer ==
    ( /\ IsReflection /\ max_iterations >= 1
      /\ Rounds = max_iterations
      /\ \A k \in 1 .. Len(checks) :
             ~Greater(Similarity(checks[k].answer1, checks[k].answer2), threshold) ) =>
        /\ Returned
        /\ MaxRoundsReached /\ ~Converged
        /\ result[1].final_answer = RefinedTexts[max_iterations]

\* Two rounds without convergence; the last refined answer differs from the
\* initial answer and from the refined answer of round 1.
C10_Witness ==
    /\ IsReflection /\ Returned /\ max_iterations = 2 /\ Rounds = 2
    /\ MaxRoundsReached
    /\ RefinedTexts[2] # calls[1].text
    /\ RefinedTexts[2] # RefinedTexts[1]
    /\ result[1].final_answer = RefinedTexts[2]

(* C11: Pipeline ordering and threading.  A run of generate_with_deepening  *)
(* in which no generation call failed issues one call per stage, in the      *)
(* order overview, analysis, refine, and returns only after all three; the   *)
(* prompt of stage k is built from the user prompt and outputs of earlier    *)
(* stages only (stage 2 gets the overview, stage 3 the detailed analysis),   *)
(* so stage k is issued after stage k-1 returned.                            *)
StageOrder == <<"step1_overview", "step2_analysis", "step3_refine">>

C11_PipelineOrderAndThreading ==
    (IsDeepening /\ ~SomeCallRaised) =>
        /\ Len(calls) <= 3
        /\ \A k \in 1 .. Len(calls) :
               /\ calls[k].step = StageOrder[k]
               /\ calls[k].prompt.template = StageOrder[k]
               /\ \A slot \in DOMAIN calls[k].prompt.slots :
                      calls[k].prompt.slots[slot]
                          \in {prompt} \cup {calls[m].text : m \in 1 .. k - 1}
        /\ Len(calls) >= 2 => calls[2].prompt.slots.overview = calls[1].text
        /\ Len(calls) >= 3 => calls[3].prompt.slots.detailed_analysis = calls[2].text
        /\ Returned => Len(calls) = 3
        /\ (pc = "step1" => Len(calls) = 0) /\ (pc = "step2" => Len(calls) = 1)
        /\ (pc = "step3" => Len(calls) = 2)

\* A returned pipeline run whose stages 1 and 2 produced different texts.
C11_Witness ==
    /\ IsDeepening /\ Returned /\ ~SomeCallRaised
    /\ calls[1].text = <<"b">> /\ calls[2].text = <<"c">>
    /\ calls[2].prompt.slots.overview = <<"b">>
    /\ calls[3].prompt.slots.detailed_analysis = <<"c">>

(* C14: History is append-only.  In both orchestrators every step leaves    *)
(* the history an extension of what it was: the entries already appended     *)
(* stay as they are and in place, and the length never decreases.            *)
IsPrefix(p, q) == Len(p) <= Len(q) /\ SubSeq(q, 1, Len(p)) = p

C14_HistoryAppendOnly == [][IsPrefix(history, history')]_vars

\* An iterative run whose history grew to six entries, the critique of round 1
\* still in its place.
C14_Witness ==
    /\ IsReflection /\ Returned /\ Len(history) = 6
    /\ history[2] = CritiqueEntry(1, <<"b">>)

(* C17: generate_text never raises.  Every exception of the completion call *)
(* becomes a returned string, the failure message followed by the error      *)
(* text; it reaches the caller the way a generated text does (same type,     *)
(* used as the answer of the step), and the run goes on: the only error an   *)
(* orchestrator raises is the one of its guard, before any call.             *)
Chars == {" ", "a", "b", "c", "e", "K", "!", "q", "2"}

C17_GenerateTextNeverRaises ==
    /\ pc = "raised" => calls = <<>>
    /\ \A j \in 1 .. Len(calls) :
           /\ calls[j].text \in Seq(Chars)
           /\ calls[j].raised =>
                  \E e \in Errors :
                      /\ calls[j].text = <<"K", "!">> \o e
                      /\ SubSeq(calls[j].text, 3, Len(calls[j].text)) = e
    /\ (IsReflection /\ Len(calls) >= 1) => history[1] = InitialEntry(calls[1].text)
    /\ (IsDeepening /\ Len(calls) >= 1) => history[1] = OverviewEntry(calls[1].text)

\* The initial answer's call raised and its failure message went on as the
\* answer that the critique prompt quotes.
C17_Witness ==
    /\ IsReflection /\ Len(calls) >= 2
    /\ calls[1].raised
    /\ calls[2].prompt.slots.current_answer = <<"K", "!", "e">>

(* C18: Call-sequence shape of an iterative run.  The generation calls are   *)
(* the initial answer, then for each round its critique followed by its      *)
(* refinement; a run that executed R rounds made exactly 1 + 2R calls and R  *)
(* convergence checks, the check of round r comparing the answer before the  *)
(* round with the refinement of round r, before the critique of round r+1.   *)
C18_CallSequenceShape ==
    IsReflection =>
        /\ \A j \in 1 .. Len(calls) :
               calls[j].step = (IF j = 1 THEN "initial"
                                ELSE IF j % 2 = 0 THEN "critique" ELSE "refinement")
        /\ Len(checks) = Rounds
        /\ \A r \in 1 .. Len(checks) :
               /\ checks[r].answer1 = calls[2 * r - 1].text
               /\ checks[r].answer2 = calls[2 * r + 1].text
        /\ pc = "critique" => Len(calls) = 1 + 2 * Len(checks)
        /\ pc = "refinement" => Len(calls) = 2 + 2 * Len(checks)
        /\ Returned => Len(calls) = 1 + 2 * Rounds

\* A returned run of two rounds: five calls and two checks.
C18_Witness ==
    /\ IsReflection /\ Returned
    /\ Rounds = 2 /\ Len(calls) = 5 /\ Len(checks) = 2
    /\ checks[2].answer1 # calls[1].text

(* C19: Zero-round edge case.  generate_with_reflection called with          *)
(* max_iterations <= 0 makes exactly one generation call (the initial        *)
(* answer), no critique, refinement or convergence check, returns the        *)
(* initial answer as final answer, and its history ends with the 'maximum    *)
(* iterations reached' entry.                                                *)
C19_ZeroRounds ==
    (IsReflection /\ KindOf(strategy_name) = "iterative" /\ max_iterations <= 0) =>
        /\ pc \in {"entry", "initial", "returned"}
        /\ checks = <<>>
        /\ pc # "returned" => calls = <<>>
        /\ Returned =>
               /\ Len(calls) = 1 /\ calls[1].step = "initial"
               /\ result[1].final_answer = calls[1].text
               /\ result[1].history = <<InitialEntry(calls[1].text), MaxEntry(max_iterations)>>

\* A returned run with max_iterations = 0, and the initial answer it returned.
C19_Witness ==
    /\ IsReflection /\ Returned /\ max_iterations = 0
    /\ Len(calls) = 1
    /\ result[1].final_answer = <<"a">>

(* C13: Completion notification.  At most one completion notification is    *)
(* emitted per run, at the end of the run, and only for a successful run: a  *)
(* run in which a generation call failed emits none, a finished run in which *)
(* none failed emits exactly one.                                            *)
C13_CompletionOnlyOnSuccess ==
    /\ Len(app.status) <= 1
    /\ app.status # <<>> => (app.pc = "done" /\ ~SomeCallRaised)
    /\ (app.pc = "done" /\ ~SomeCallRaised) => Len(app.status) = 1

(* C15: Dispatch by kind.  Once the button was pressed with a non-empty      *)
(* prompt, generate_with_reflection is the method called if and only if the  *)
(* selected strategy is iterative (max_iterations being the slider's value,  *)
(* between 1 and 5) and generate_with_deepening if and only if it is a       *)
(* pipeline; the orchestrator gets the selected key and never raises; for    *)
(* any other type no orchestrator is called.                                 *)
C15_DispatchByKind ==
    app.pc \in {"running", "done", "error"} =>
        LET kind == KindOf(app.selected_strategy_key)
        IN /\ IsReflection <=> kind = "iterative"
           /\ IsDeepening <=> kind = "pipeline"
           /\ (IsReflection \/ IsDeepening) =>
                  /\ strategy_name = app.selected_strategy_key
                  /\ pc # "none"
           /\ IsReflection =>
                  /\ max_iterations = app.max_iterations
                  /\ max_iterations \in 1 .. 5
           /\ pc # "raised" /\ app.pc # "error"
           /\ kind \notin {"iterative", "pipeline"} =>
                  /\ method = "none" /\ pc = "none" /\ calls = <<>>

\* An iterative strategy was selected with the slider at 2, and
\* generate_with_reflection ran its two rounds and returned to the page.
C15_Witness ==
    /\ app.pc = "done"
    /\ app.selected_strategy_key = "adversarial" /\ app.max_iterations = 2
    /\ IsReflection /\ strategy_name = "adversarial" /\ Rounds = 2

(* C16: Non-empty prompt precondition.  Pressing the button with an empty    *)
(* prompt makes no generation call at all (no single-pass call, no           *)
(* orchestrator call); every run started through the app has the non-empty   *)
(* prompt of the text area, and every generation call has a positive token   *)
(* budget.                                                                   *)
C16_NonEmptyPrompt ==
    /\ app.prompt = <<>> =>
           /\ app.single_calls = <<>> /\ calls = <<>>
           /\ pc = "none" /\ app.pc \in {"button", "warned"}
    /\ pc # "none" => (prompt # <<>> /\ prompt = app.prompt)
    /\ \A j \in 1 .. Len(app.single_calls) :
           /\ app.single_calls[j].max_tokens > 0
           /\ app.single_calls[j].prompt # <<>>
    /\ \A j \in 1 .. Len(calls) : calls[j].max_tokens > 0

\* The button was pressed with an empty text area: the warning, and no call.
C16_Witness ==
    /\ app.pc = "warned" /\ app.prompt = <<>>
    /\ app.single_calls = <<>> /\ calls = <<>>

(* C12: Run isolation.  When two calls on the shared client interleave in   *)
(* any way, the result a call returns is the one its own generation calls    *)
(* determine, as if it had run alone: its history holds the entries of its   *)
(* own calls only, its final answer is its own last answer, and its prompts  *)
(* quote its own user prompt and its own earlier outputs only.               *)
SoloResult ==
    IF IsReflection
    THEN Return(IF Rounds = 0 THEN calls[1].text ELSE RefinedTexts[Rounds],
                <<InitialEntry(calls[1].text)>> \o RoundEntries(Rounds)
                  \o (IF Rounds > 0 /\ checks[Rounds].converged
                      THEN <<>> ELSE <<MaxEntry(max_iterations)>>))
    ELSE Return(calls[3].text,
                <<OverviewEntry(calls[1].text), AnalysisEntry(calls[2].text),
                  FinalEntry>>)

OwnPromptsOnly ==
    \A k \in 1 .. Len(calls) :
        IF calls[k].step = "initial" THEN calls[k].prompt = prompt
        ELSE \A slot \in DOMAIN calls[k].prompt.slots :
                 calls[k].prompt.slots[slot]
                     \in {prompt} \cup {calls[m].text : m \in 1 .. k - 1}

C12_RunIsolation ==
    threads.running # 0 =>
        /\ OwnPromptsOnly
        /\ Returned => result[1] = SoloResult
        /\ threads.parked.pc = "returned" =>
               /\ threads.parked.result[1].history = threads.parked.history
               /\ \A n \in 1 .. Len(threads.parked.history) :
                      \/ threads.parked.history[n].content
                             \in {threads.parked.calls[k].text :
                                    k \in 1 .. Len(threads.parked.calls)}
                      \/ threads.parked.history[n].content
                             \in {NoteConverged, NoteRefined, NoteFinal,
                                  NoteMax(threads.parked.max_iterations)}

\* The iterative call returned after the pipeline call, started second, had
\* made its first two calls in between, with texts the iterative call never got.
C12_Witness ==
    /\ threads.running = 1 /\ IsReflection /\ Returned
    /\ Len(calls) = 3 /\ \A k \in 1 .. 3 : calls[k].text = <<"a">>
    /\ threads.parked.method = "generate_with_deepening"
    /\ threads.parked.pc = "step3"
    /\ threads.parked.history = <<OverviewEntry(<<"b">>), AnalysisEntry(<<"c">>)>>

====
